---- MODULE Spec2Model ----
(***************************************************************************)
(* SatSnake zap payment engine: the receipt validator of                   *)
(* NostrRelayManager (js/nostr-relay-manager.js), the negotiation flow of  *)
(* LightningPaymentManager and the session wiring of SatSnakeGame.         *)
(***************************************************************************)
EXTENDS Integers, Sequences, FiniteSets, TLC

VARIABLES
    vin,    \* validator harness: the function called and its arguments
    vpc,    \* validator harness: "ready" before the call, "returned" after it
    vout,   \* validator harness: the value that call returned
    relayReady,            \* initializePaymentSystem has run
    ndk,                   \* relayManager.ndk: "null" or "ok"
    recipientNostrPubkey,  \* config.recipientNostrPubkey
    paymentInProgress,     \* LightningPaymentManager.paymentInProgress
    currentSession,        \* LightningPaymentManager.currentSession
    calls,                 \* the invocations of initiatePayment and what each set up
    gameUnlocked,          \* SatSnakeGame.gameUnlocked
    paymentStatus          \* text of the #payment-status element

vvars == <<vin, vpc, vout>>
fvars == <<relayReady, ndk, recipientNostrPubkey, paymentInProgress, currentSession,
           calls, gameUnlocked, paymentStatus>>
vars == <<vin, vpc, vout, relayReady, ndk, recipientNostrPubkey, paymentInProgress,
          currentSession, calls, gameUnlocked, paymentStatus>>

-----------------------------------------------------------------------------
(* JavaScript values that occur in tag arrays and tag lookups.             *)

\* The kind numbers of NIP-57.
ZapReceiptKind == 9735
ZapRequestKind == 9734
MsatsPerSat == 1000

\* parseInt's NaN: a value outside every amount, with NaN's comparisons below.
NaN == -1

Undefined == [ty |-> "undefined", k |-> "", v |-> ""]
StrElem(s) == [ty |-> "string", k |-> s, v |-> ""]
PairElem(key, val) == [ty |-> "array", k |-> key, v |-> val]

\* JS truthiness of a looked-up value: undefined and "" are falsy,
\* a non-empty string and every array are truthy.
Truthy(x) == /\ x.ty # "undefined"
             /\ ~(x.ty = "string" /\ x.k = "")

\* x === s for a string s: an array is never strictly equal to a string.
StrictEqStr(x, s) == x.ty = "string" /\ x.k = s

\* The string a value turns into where the code uses it as one
\* (JSON.parse(x), parseInt(x, 10)): an array ["k","v"] becomes "k,v".
AsString(x) == IF x.ty = "string" THEN x.k
               ELSE IF x.ty = "array" THEN x.k \o "," \o x.v
               ELSE "undefined"

RECURSIVE FirstIndex(_, _, _)
FirstIndex(tags, key, i) ==
    IF i > Len(tags) THEN 0
    ELSE IF StrictEqStr(tags[i], key) THEN i
    ELSE FirstIndex(tags, key, i + 1)

RECURSIVE FirstKeyIndex(_, _, _)
FirstKeyIndex(tags, key, i) ==
    IF i > Len(tags) THEN 0
    ELSE IF tags[i].ty = "array" /\ tags[i].k = key THEN i
    ELSE FirstKeyIndex(tags, key, i + 1)

\* A lookup by the tag's key, t => t[0] === key, yielding the tag's value t[1].
TagFindByKey(tags, key) ==
    LET i == FirstKeyIndex(tags, key, 1)
    IN  IF i = 0 THEN Undefined ELSE StrElem(tags[i].v)

\* tags.find(t => t === key): the first element strictly equal to the key string.
TagFind(tags, key) ==
    LET i == FirstIndex(tags, key, 1)
    IN  IF i = 0 THEN Undefined ELSE tags[i]

-----------------------------------------------------------------------------
(* Numbers and their decimal strings.                                      *)

\* The msat amounts whose decimal strings occur in the model.
AmountValues == {0, 99000, 99999, 100000, 150000}
NumericStrings == {ToString(n) : n \in AmountValues}

\* parseInt(s, 10): the number a decimal string denotes, NaN for other strings.
ParseInt(s) ==
    IF s \in NumericStrings
    THEN CHOOSE n \in AmountValues : ToString(n) = s
    ELSE NaN

\* Math.floor(a / 1000); NaN / 1000 is NaN.
FloorDiv(a, d) == IF a = NaN THEN NaN ELSE a \div d

\* a < b in JS: false whenever either side is NaN.
JsLess(a, b) == a # NaN /\ b # NaN /\ a < b

\* The text of a number inside a template string.
NumText(a) == IF a = NaN THEN "NaN" ELSE ToString(a)

-----------------------------------------------------------------------------
(* Embedded zap requests and their JSON texts.                             *)

\* Identities: the recipient the receipts are meant for, and another key.
Recipient == "R"
Stranger == "X"
Sender == "S"

\* generateSessionId: satsnake-<time>-<random>, a new id at every invocation.
generateSessionId(c) == "satsnake-" \o ToString(c)

\* The content createZapRequest gives the request of a session.
SessionContent(sessionId) == "SatSnake game session: " \o sessionId

\* The ids of two sessions: the one a receipt is validated for, and another.
SessionIds == {generateSessionId(1), generateSessionId(2)}

NullValue == [isObj |-> FALSE, kind |-> 0, content |-> "", pubkey |-> "",
              hasTags |-> FALSE, tags |-> <<>>]

\* A request object; its content names the first session.
ReqObj(kind, pubkey, tags) ==
    [isObj |-> TRUE, kind |-> kind, content |-> SessionContent(generateSessionId(1)),
     pubkey |-> pubkey, hasTags |-> TRUE, tags |-> tags]

\* The same request with the content of another session.
NamingSession(r, sessionId) == [r EXCEPT !.content = SessionContent(sessionId)]

\* The tag lists an embedded request carries: with or without an amount
\* tag and a p tag.
ReqAmountTags == {<<>>} \cup {<<PairElem("amount", s)>> : s \in NumericStrings \cup {"abc"}}
ReqRecipientTags == {<<>>} \cup {<<PairElem("p", r)>> : r \in {Recipient, Stranger}}
ReqTagLists == {a \o p : a \in ReqAmountTags, p \in ReqRecipientTags}

ZapRequests ==
    {NamingSession(ReqObj(kd, Sender, t), sid) :
        kd \in {ZapRequestKind, 1}, t \in ReqTagLists, sid \in SessionIds}

RECURSIVE TagsJson(_)
TagsJson(tags) ==
    IF tags = <<>> THEN ""
    ELSE "[\"" \o Head(tags).k \o "\",\"" \o Head(tags).v \o "\"]"
         \o (IF Len(tags) > 1 THEN "," ELSE "") \o TagsJson(Tail(tags))

\* JSON.stringify of a zap request object.
Stringify(r) ==
    IF ~r.isObj THEN "null"
    ELSE "{\"kind\":" \o ToString(r.kind) \o ",\"content\":\"" \o r.content
         \o "\",\"pubkey\":\"" \o r.pubkey
         \o "\",\"tags\":[" \o TagsJson(r.tags) \o "]}"

\* The JSON texts of the request objects, and the object each denotes.
RequestTexts == {Stringify(r) : r \in ZapRequests}
RequestOfText == [s \in RequestTexts |-> CHOOSE r \in ZapRequests : Stringify(r) = s]

\* JSON.parse: the value a JSON text denotes; any other string throws.
JsonParse(s) ==
    IF s = "null" THEN [ok |-> TRUE, val |-> NullValue]
    ELSE IF s \in RequestTexts
    THEN [ok |-> TRUE, val |-> RequestOfText[s]]
    ELSE [ok |-> FALSE, val |-> NullValue]

-----------------------------------------------------------------------------
(* NostrRelayManager.validateZapRequest / validateZapReceipt. The value of  *)
(* this.config.recipientNostrPubkey is passed as configRecipient.          *)

Reject(reason) ==
    [valid |-> FALSE, reason |-> reason, amountMsats |-> NaN, amountSats |-> NaN,
     senderPubkey |-> "", bolt11 |-> "", thrown |-> FALSE]

\* error.message of the TypeError a property read of undefined/null throws.
TypeErrorMessage == "TypeError"

\* An exception with the given message leaving a block.
Throw(message) == [Reject(message) EXCEPT !.thrown = TRUE]

\* A try statement without its catch clause: the exception leaves the function.
Rethrow(outcome) == outcome

\* catch (error) { return { valid: false, reason: error.message } }
CatchError(outcome) == IF outcome.thrown THEN Reject(outcome.reason) ELSE outcome

InsufficientAmount(a, e) == "Insufficient amount: " \o NumText(a) \o " < " \o NumText(e)

\* The try block of validateZapRequest: reading .kind of null and calling
\* .find of an absent tags field throw a TypeError.
ZapRequestTryBlock(zapRequest, expectedAmountSats, configRecipient) ==
    IF ~zapRequest.isObj THEN Throw(TypeErrorMessage)
    ELSE IF zapRequest.kind # ZapRequestKind THEN Reject("Invalid zap request kind")
    ELSE IF ~zapRequest.hasTags THEN Throw(TypeErrorMessage)
    ELSE
      LET amountTag == TagFind(zapRequest.tags, "amount")
          amountMsats == ParseInt(AsString(amountTag))
          amountSats == FloorDiv(amountMsats, MsatsPerSat)
          recipientTag == TagFind(zapRequest.tags, "p")
      IN  IF ~Truthy(amountTag) THEN Reject("No amount in zap request")
          ELSE IF JsLess(amountSats, expectedAmountSats)
          THEN Reject(InsufficientAmount(amountSats, expectedAmountSats))
          ELSE IF ~Truthy(recipientTag) \/ ~StrictEqStr(recipientTag, configRecipient)
          THEN Reject("Zap recipient mismatch")
          ELSE [valid |-> TRUE, reason |-> "", amountMsats |-> amountMsats,
                amountSats |-> amountSats, senderPubkey |-> "", bolt11 |-> "",
                thrown |-> FALSE]

\* A validator of the embedded request that accepts only a request whose
\* content names the session it is called for.
RequestForSessionOnly(zapRequest, expectedSessionId, expectedAmountSats, configRecipient) ==
    IF zapRequest.isObj /\ zapRequest.content # SessionContent(expectedSessionId)
    THEN Reject("Session mismatch")
    ELSE CatchError(ZapRequestTryBlock(zapRequest, expectedAmountSats, configRecipient))

validateZapRequest(zapRequest, expectedSessionId, expectedAmountSats, configRecipient) ==
    CatchError(ZapRequestTryBlock(zapRequest, expectedAmountSats, configRecipient))

verifyEventSignature(event) ==
    /\ event.id # ""
    /\ event.sig # ""
    /\ event.pubkey # ""
    /\ event.created_at # 0

\* A validator that never performs the required-tags check.
NoRequiredTagCheck(bolt11Tag, descriptionTag, recipientTag) == FALSE

\* !bolt11Tag || !descriptionTag || !recipientTag
RequiredTagMissing(bolt11Tag, descriptionTag, recipientTag) ==
    ~Truthy(bolt11Tag) \/ ~Truthy(descriptionTag) \/ ~Truthy(recipientTag)

\* The try block of validateZapReceipt: calling .find of an absent tags field
\* throws a TypeError; JSON.parse has a try/catch of its own.
ZapReceiptTryBlock(event, gameSessionId, expectedAmountSats, configRecipient) ==
    IF event.kind # ZapReceiptKind THEN Reject("Not a zap receipt (kind 9735)")
    ELSE IF ~verifyEventSignature(event) THEN Reject("Invalid event signature")
    ELSE IF ~event.hasTags THEN Throw(TypeErrorMessage)
    ELSE
      LET bolt11Tag == TagFind(event.tags, "bolt11")
          descriptionTag == TagFind(event.tags, "description")
          recipientTag == TagFind(event.tags, "p")
          parsed == JsonParse(AsString(descriptionTag))
          zapValidation == validateZapRequest(parsed.val, gameSessionId,
                                              expectedAmountSats, configRecipient)
      IN  IF RequiredTagMissing(bolt11Tag, descriptionTag, recipientTag)
          THEN Reject("Missing required zap receipt tags")
          ELSE IF ~StrictEqStr(recipientTag, configRecipient)
          THEN Reject("Recipient mismatch")
          ELSE IF ~parsed.ok THEN Reject("Invalid zap request JSON")
          ELSE IF ~zapValidation.valid THEN zapValidation
          ELSE [valid |-> TRUE, reason |-> "",
                amountMsats |-> zapValidation.amountMsats,
                amountSats |-> FloorDiv(zapValidation.amountMsats, MsatsPerSat),
                senderPubkey |-> parsed.val.pubkey,
                bolt11 |-> AsString(bolt11Tag), thrown |-> FALSE]

validateZapReceipt(event, gameSessionId, expectedAmountSats, configRecipient) ==
    CatchError(ZapReceiptTryBlock(event, gameSessionId, expectedAmountSats,
                                  configRecipient))

-----------------------------------------------------------------------------
(* The events a relay can deliver: untrusted input.                        *)

Invoice == "lnbc1"

Event(kind, id, sig, pubkey, created_at, hasTags, tags) ==
    [kind |-> kind, id |-> id, sig |-> sig, pubkey |-> pubkey,
     created_at |-> created_at, hasTags |-> hasTags, tags |-> tags]

\* The description texts a receipt can carry.
Descriptions == {Stringify(r) : r \in ZapRequests} \cup {"null", "not json"}

InvoiceTags == {<<>>, <<PairElem("bolt11", Invoice)>>}
DescriptionTags == {<<>>} \cup {<<PairElem("description", d)>> : d \in Descriptions}
RecipientTags == {<<>>, <<PairElem("p", Recipient)>>, <<PairElem("p", Stranger)>>,
                  <<PairElem("p", Stranger), PairElem("p", Recipient)>>}

\* Tag lists of key/value pairs, as the relay protocol delivers them.
PairTagLists == {b \o d \o p : b \in InvoiceTags, d \in DescriptionTags, p \in RecipientTags}

\* Tag lists whose elements are bare strings.
StringTagLists ==
    {b \o d \o p : b \in {<<>>, <<StrElem("bolt11")>>},
                   d \in {<<>>, <<StrElem("description")>>},
                   p \in {<<>>, <<StrElem("p")>>}}

\* The instant, in seconds, at which the session the receipts are checked
\* against was created (currentSession.createdAt).
SessionCreatedAt == 60

\* Header fields: all present, or one of them missing; created_at in seconds,
\* before the session was created (50) or after it (70).
Headers ==
    {<<"e1", "s1", Recipient, 50>>, <<"e1", "s1", Recipient, 70>>,
     <<"", "s1", Recipient, 50>>, <<"e1", "", Recipient, 50>>,
     <<"e1", "s1", "", 50>>, <<"e1", "s1", Recipient, 0>>}

Events ==
    {Event(kd, h[1], h[2], h[3], h[4], TRUE, t) :
        kd \in {ZapReceiptKind, 1}, h \in Headers, t \in PairTagLists \cup StringTagLists}
    \cup {Event(ZapReceiptKind, "e1", "s1", Recipient, 50, FALSE, <<>>)}

\* config.minPaymentSats and a larger expected amount.
minPaymentSats == 100
ExpectedAmounts == {minPaymentSats, 150}

\* config.recipientNostrPubkey: unresolved (""), resolved, or the string "p".
RecipientConfigs == {"", Recipient, "p"}

-----------------------------------------------------------------------------
(* LightningPaymentManager: LNURL metadata, zap request, invoice callback. *)

\* How many times initiatePayment is invoked in one run.
MaxCalls == 2
CallIds == 1..MaxCalls

\* nostrPubkey absent from the metadata (JS undefined, distinct from "").
NoPubkey == "<undefined>"
CallbackUrl == "https://example.com/cb"

MetaOk(pk, lo, hi) ==
    [ok |-> TRUE, status |-> "", callback |-> CallbackUrl, allowsNostr |-> TRUE,
     nostrPubkey |-> pk, minSendable |-> lo, maxSendable |-> hi]

\* The sendable range the endpoint reports, in msats: <<minSendable, maxSendable>>.
SendableRange == <<100000, 500000>>
MinSendable == SendableRange[1]
MaxSendable == SendableRange[2]

\* minSendable or maxSendable absent from the metadata: undefined, which is
\* NaN once divided by 1000 or compared with a number.
NoBound == NaN

\* What the well-known endpoint can answer: usable metadata, with or without
\* a nostrPubkey, metadata without one of its sendable bounds, and the failures.
MetadataResponses ==
    {MetaOk(Recipient, MinSendable, MaxSendable),
     MetaOk(NoPubkey, MinSendable, MaxSendable),
     MetaOk(Recipient, NoBound, MaxSendable),
     MetaOk(Recipient, MinSendable, NoBound),
     [MetaOk(Recipient, MinSendable, MaxSendable) EXCEPT !.ok = FALSE],
     [MetaOk(Recipient, MinSendable, MaxSendable) EXCEPT !.status = "ERROR"],
     [MetaOk(Recipient, MinSendable, MaxSendable) EXCEPT !.callback = ""],
     [MetaOk(Recipient, MinSendable, MaxSendable) EXCEPT !.callback = "not a url"],
     [MetaOk(Recipient, MinSendable, MaxSendable) EXCEPT !.allowsNostr = FALSE]}

NoMetadata == [MetaOk("", 0, 0) EXCEPT !.ok = FALSE, !.callback = "", !.allowsNostr = FALSE]

\* A resolver that hands on whatever the endpoint answered.
MetadataUnchecked(resp) == [isNull |-> FALSE, data |-> resp]

\* fetchLnurlMetadata: the response's data, or null on any failure.
fetchLnurlMetadata(resp) ==
    IF ~resp.ok \/ resp.status = "ERROR" \/ resp.callback = ""
    THEN [isNull |-> TRUE, data |-> NoMetadata]
    ELSE [isNull |-> FALSE, data |-> resp]

\* new URL(callback) succeeds.
IsUrl(callback) == callback = CallbackUrl

NoRequest == [kind |-> 0, content |-> "", pubkey |-> "", tags |-> <<>>]

\* A zap request whose amount tag carries the amount in sats.
ZapRequestInSats(sessionId, amountSats, recipientPubkey) ==
    [kind |-> ZapRequestKind,
     content |-> SessionContent(sessionId),
     pubkey |-> "",
     tags |-> <<PairElem("relays", "wss://relay.damus.io"),
                PairElem("amount", ToString(amountSats)),
                PairElem("lnurl", "mustardmoose1@primal.net"),
                PairElem("p", recipientPubkey)>>]

\* createZapRequest(sessionId, amountSats, recipientPubkey)
createZapRequest(sessionId, amountSats, recipientPubkey) ==
    [kind |-> ZapRequestKind,
     content |-> SessionContent(sessionId),
     pubkey |-> "",
     tags |-> <<PairElem("relays", "wss://relay.damus.io"),
                PairElem("amount", ToString(amountSats * MsatsPerSat)),
                PairElem("lnurl", "mustardmoose1@primal.net"),
                PairElem("p", recipientPubkey)>>]

CallbackResponses ==
    {[ok |-> TRUE, status |-> "", pr |-> Invoice],
     [ok |-> TRUE, status |-> "", pr |-> "lntb2"],
     [ok |-> FALSE, status |-> "", pr |-> Invoice],
     [ok |-> TRUE, status |-> "ERROR", pr |-> ""],
     [ok |-> TRUE, status |-> "", pr |-> ""]}

\* A negotiator that hands back the pr field whatever the response says.
InvoiceIgnoringStatus(resp) == resp.pr

\* getInvoiceFromCallback once the callback has answered: data.pr, or null
\* (modelled as "", which is as falsy as null) on any failure.
getInvoiceFromCallback(resp) ==
    IF ~resp.ok \/ resp.status = "ERROR" \/ resp.pr = "" THEN "" ELSE resp.pr

\* No callback response received (yet).
NoResponse == [ok |-> FALSE, status |-> "", pr |-> ""]

NoSession == [id |-> "", amountSats |-> 0, amountMsats |-> 0, invoice |-> "",
              zapRequest |-> NoRequest]

NullResult == [ok |-> FALSE, invoice |-> "", amountSats |-> 0, sessionId |-> ""]

NoEvent == Event(0, "", "", "", 0, FALSE, <<>>)

\* No filter handed to the relay subscription (yet).
NoFilter == [kinds |-> {}, authors |-> {}, since |-> 0]

IdleCall ==
    [pc |-> "idle", amount |-> 0, sessionId |-> "", lnurlData |-> NoMetadata,
     zapRequest |-> NoRequest, result |-> NullResult,
     metaFetches |-> 0, callbackFetches |-> 0,
     callbackAmount |-> "", callbackResponse |-> NoResponse,
     timer |-> "none", sub |-> "none", filter |-> NoFilter, callbacks |-> 0, unlocks |-> 0,
     deliveries |-> 0, prevEvent |-> NoEvent, lastEvent |-> NoEvent, lastLate |-> FALSE]

\* The amountSats arguments: none (0, replaced by config.minPaymentSats, the
\* lower end of the sendable range), an amount below the range, and an amount
\* above it.
AmountArgs == {0, 99, 501}

-----------------------------------------------------------------------------
(* LightningPaymentManager's methods, each split at its await points.      *)

gvars == <<relayReady, ndk, recipientNostrPubkey, gameUnlocked, paymentStatus>>

\* The call record once initiatePayment has returned null: its locals are gone;
\* how many requests it made, and what the callback answered, stays on record.
Returned(call, pc) ==
    [IdleCall EXCEPT !.pc = pc, !.metaFetches = call.metaFetches,
                     !.callbackFetches = call.callbackFetches,
                     !.callbackResponse = call.callbackResponse]

\* A catch block that returns null and leaves the flag set.
FailKeepsLock(c, resp) ==
    /\ calls' = [calls EXCEPT ![c] =
         Returned([calls[c] EXCEPT !.callbackResponse = resp], "failed")]
    /\ UNCHANGED <<paymentInProgress, currentSession>>

\* The catch block of initiatePayment: release the flag, return null. resp is
\* the callback's answer, NoResponse when the failure came before the request.
Fail(c, resp) ==
    /\ paymentInProgress' = FALSE
    /\ calls' = [calls EXCEPT ![c] =
         Returned([calls[c] EXCEPT !.callbackResponse = resp], "failed")]
    /\ UNCHANGED currentSession

\* if (this.paymentInProgress) return null
GuardRejects(c, amountSats) == paymentInProgress

\* initiatePayment up to its first await: the in-progress guard, the flag, the
\* session id, and the metadata request.
initiatePayment(c, amountSats) ==
    /\ calls[c].pc = "idle"
    /\ IF c = 1 THEN TRUE ELSE calls[c - 1].pc # "idle"
    /\ IF GuardRejects(c, amountSats)
       THEN /\ calls' = [calls EXCEPT ![c] = Returned(calls[c], "rejected")]
            /\ UNCHANGED paymentInProgress
       ELSE /\ paymentInProgress' = TRUE
            /\ calls' = [calls EXCEPT
                 ![c].pc = "awaitMetadata",
                 ![c].amount = IF amountSats # 0 THEN amountSats ELSE minPaymentSats,
                 ![c].sessionId = generateSessionId(c),
                 ![c].metaFetches = @ + 1]
    /\ UNCHANGED currentSession

\* The metadata request settles: fetchLnurlMetadata returns, the allowsNostr
\* check, createZapRequest, and getInvoiceFromCallback up to its fetch.
MetadataResponds(c, resp) ==
    /\ calls[c].pc = "awaitMetadata"
    /\ LET lnurlData == fetchLnurlMetadata(resp)
       IN  IF lnurlData.isNull \/ ~lnurlData.data.allowsNostr
              \/ ~IsUrl(lnurlData.data.callback)
           THEN Fail(c, NoResponse)
           ELSE /\ calls' = [calls EXCEPT
                     ![c].pc = "awaitCallback",
                     ![c].lnurlData = lnurlData.data,
                     ![c].zapRequest = createZapRequest(calls[c].sessionId,
                                          calls[c].amount, lnurlData.data.nostrPubkey),
                     ![c].callbackFetches = @ + 1,
                     ![c].callbackAmount = ToString(calls[c].amount * MsatsPerSat)]
                /\ UNCHANGED <<paymentInProgress, currentSession>>

\* The call record when initiatePayment returns {invoice, amountSats, sessionId}.
Succeeded(call, invoice) ==
    [call EXCEPT !.pc = "returned",
                 !.result = [ok |-> TRUE, invoice |-> invoice,
                             amountSats |-> call.amount, sessionId |-> call.sessionId]]

\* since: now - 60, in seconds.
FilterBuffer == 60

\* The filter listenForZapReceipt hands to ndk.subscribe. It runs in the turn
\* in which initiatePayment returned, so now is the second the session was
\* created in.
ZapReceiptFilter(configRecipient) ==
    [kinds |-> {ZapReceiptKind}, authors |-> {configRecipient},
     since |-> SessionCreatedAt - FilterBuffer]

\* SatSnakeGame.listenForPayment as run from SatSnakeGame.initiatePayment when
\* the manager returned a result: arm the timer, then listenForZapReceipt
\* subscribes, or throws when there is no NDK instance.
listenForPayment(call) ==
    [call EXCEPT !.pc = IF ndk = "ok" THEN "listening" ELSE "listenError",
                 !.timer = "armed",
                 !.sub = IF ndk = "ok" THEN "active" ELSE "none",
                 !.filter = IF ndk = "ok" THEN ZapReceiptFilter(recipientNostrPubkey)
                            ELSE NoFilter]

\* The callback request settles: on failure the catch block, on success the
\* session is stored and the result returned; when the caller is
\* SatSnakeGame.initiatePayment (byGame) it goes on to listenForPayment.
CallbackSettles(c, resp, byGame) ==
    /\ calls[c].pc = "awaitCallback"
    /\ LET invoice == getInvoiceFromCallback(resp)
           amount == calls[c].amount
       IN  IF invoice = ""
           THEN Fail(c, resp)
           ELSE /\ currentSession' =
                     [id |-> calls[c].sessionId, amountSats |-> amount,
                      amountMsats |-> amount * MsatsPerSat, invoice |-> invoice,
                      zapRequest |-> calls[c].zapRequest]
                /\ calls' = [calls EXCEPT ![c] =
                     LET call == [calls[c] EXCEPT !.callbackResponse = resp]
                     IN  IF byGame THEN listenForPayment(Succeeded(call, invoice))
                         ELSE Succeeded(call, invoice)]
                /\ UNCHANGED paymentInProgress

CallbackResponds(c, resp) == CallbackSettles(c, resp, FALSE)

\* LightningPaymentManager.completePayment
completePayment ==
    /\ paymentInProgress' = FALSE
    /\ currentSession' = NoSession
    /\ UNCHANGED calls

\* LightningPaymentManager.resetPayment
resetPayment ==
    /\ paymentInProgress' = FALSE
    /\ currentSession' = NoSession
    /\ UNCHANGED calls

-----------------------------------------------------------------------------
(* SatSnakeGame driving the two managers.                                  *)

InitializeOutcomes ==
    {[ndk |-> "null", pubkey |-> ""], [ndk |-> "ok", pubkey |-> ""],
     [ndk |-> "ok", pubkey |-> Recipient]}

\* SatSnakeGame.initializePaymentSystem: NostrRelayManager.initialize (NDK set up,
\* resolveRecipientPubkey) and the construction of the payment manager.
initializePaymentSystem(o) ==
    /\ ~relayReady
    /\ relayReady' = TRUE
    /\ ndk' = o.ndk
    /\ recipientNostrPubkey' = o.pubkey
    /\ UNCHANGED <<paymentInProgress, currentSession, calls, gameUnlocked, paymentStatus>>

\* A click on the unlock button: SatSnakeGame.initiatePayment calls the
\* manager's initiatePayment without an amount.
GameInitiatePayment(c) ==
    /\ relayReady
    /\ initiatePayment(c, 0)
    /\ UNCHANGED gvars

GameMetadataResponds(c, resp) ==
    /\ MetadataResponds(c, resp)
    /\ UNCHANGED gvars

\* The manager returns to SatSnakeGame.initiatePayment, which on a result
\* starts listenForPayment.
GameCallbackResponds(c, resp) ==
    /\ CallbackSettles(c, resp, TRUE)
    /\ paymentStatus' = IF getInvoiceFromCallback(resp) # "" /\ ndk # "ok"
                        THEN "Error listening for payment"
                        ELSE paymentStatus
    /\ UNCHANGED <<relayReady, ndk, recipientNostrPubkey, gameUnlocked>>

\* How many events one subscription's history counts.
MaxDelivered == 2

\* The history of one subscription: its last two events, and whether the timer
\* had fired when the last one arrived.
Delivered(call, ev) ==
    [call EXCEPT !.prevEvent = call.lastEvent,
                 !.lastEvent = ev, !.lastLate = (call.timer = "fired"),
                 !.deliveries = IF @ < MaxDelivered THEN @ + 1 ELSE @]

\* A handler that hands every validation outcome to the callback and leaves
\* the subscription open.
ForwardEveryEvent(c, ev) ==
    /\ calls[c].sub = "active"
    /\ calls[c].callbacks < MaxDelivered
    /\ calls' = [calls EXCEPT ![c] =
         [Delivered(calls[c], ev) EXCEPT
            !.callbacks = @ + 1,
            !.timer = IF @ = "armed" THEN "cleared" ELSE @]]
    /\ paymentStatus' = "Invalid payment received."
    /\ UNCHANGED <<relayReady, ndk, recipientNostrPubkey, paymentInProgress,
                   currentSession, gameUnlocked>>

\* The subscription handler of listenForZapReceipt on one delivered event:
\* validateZapReceipt; on valid, onZapReceived (clearTimeout, status,
\* unlockGame -> completePayment) and unsubscribe; otherwise only a log line.
ZapEventHandler(c, ev) ==
    /\ calls[c].sub = "active"
    /\ LET validation == validateZapReceipt(ev, calls[c].sessionId, calls[c].amount,
                                            recipientNostrPubkey)
       IN  IF validation.valid
           THEN /\ calls' = [calls EXCEPT ![c] =
                     [Delivered(calls[c], ev) EXCEPT
                        !.callbacks = @ + 1,
                        !.unlocks = @ + 1,
                        !.timer = IF @ = "armed" THEN "cleared" ELSE @,
                        !.sub = "closed"]]
                /\ paymentStatus' = "Payment confirmed!"
                /\ gameUnlocked' = TRUE
                /\ paymentInProgress' = FALSE
                /\ currentSession' = NoSession
           ELSE /\ calls' = [calls EXCEPT ![c] = Delivered(calls[c], ev)]
                /\ UNCHANGED <<paymentStatus, gameUnlocked, paymentInProgress,
                               currentSession>>
    /\ UNCHANGED <<relayReady, ndk, recipientNostrPubkey>>

TimeoutMessage == "Payment timeout. Please try again."

\* The setTimeout callback of listenForPayment: status text and resetPaymentUI.
TimerFires(c) ==
    /\ calls[c].timer = "armed"
    /\ calls' = [calls EXCEPT ![c].timer = "fired"]
    /\ paymentStatus' = TimeoutMessage
    /\ UNCHANGED <<relayReady, ndk, recipientNostrPubkey, paymentInProgress,
                   currentSession, gameUnlocked>>

\* The receipts the relay delivers during a session: a receipt for 100 sats,
\* one for 99 sats, and an event of another kind.
ReceiptFor(msats) ==
    Event(ZapReceiptKind, "e1", "s1", Recipient, 50, TRUE,
          <<PairElem("bolt11", Invoice),
            PairElem("description",
                     Stringify(ReqObj(ZapRequestKind, Sender,
                         <<PairElem("amount", msats), PairElem("p", Recipient)>>))),
            PairElem("p", Recipient)>>)

FlowEvents == {ReceiptFor("100000"), ReceiptFor("99000"),
               Event(1, "e1", "s1", Recipient, 50, TRUE, <<>>)}

-----------------------------------------------------------------------------
(* The bech32 encoder of js/lightning/LightningPaymentManager.js. A string *)
(* is the sequence of its ASCII character codes.                           *)

\* "qpzry9x8gf2tvdw0s3jn54khce6mua7l"
CHARSET == <<113, 112, 122, 114, 121, 57, 120, 56, 103, 102, 50, 116, 118, 100, 119, 48,
             115, 51, 106, 110, 53, 52, 107, 104, 99, 101, 54, 109, 117, 97, 55, 108>>

\* "1"
Separator == <<49>>

\* a ^ b on 5-bit values, bit by bit.
Xor5(a, b) ==
    ((a + b) % 2)
    + 2 * (((a \div 2) + (b \div 2)) % 2)
    + 4 * (((a \div 4) + (b \div 4)) % 2)
    + 8 * (((a \div 8) + (b \div 8)) % 2)
    + 16 * (((a \div 16) + (b \div 16)) % 2)

\* a ^ b on non-negative integers, five bits at a time.
RECURSIVE BitXor(_, _)
BitXor(a, b) ==
    IF a = 0 THEN b
    ELSE IF b = 0 THEN a
    ELSE Xor5(a % 32, b % 32) + 32 * BitXor(a \div 32, b \div 32)

\* The most negative 32-bit integer, the weight of bit 31.
MinInt32 == -2147483647 - 1

\* A left shift that saturates at the largest 32-bit integer instead of
\* dropping the bits shifted beyond bit 31.
ShiftLeftSaturating(x, n) == IF x >= 2^(31 - n) THEN 2147483647 ELSE x * 2^n

\* x << n, x >> n and x & 31 on 32-bit integers, 1 <= n <= 31: << drops the
\* bits shifted beyond bit 31 and bit 31 of the result is its sign, >> keeps
\* the sign.
ShiftLeft(x, n) ==
    LET low == x % 2^(31 - n)
        top == (x \div 2^(31 - n)) % 2
    IN  IF top = 1 THEN low * 2^n + MinInt32 ELSE low * 2^n
ShiftRight(x, n) == x \div 2^n
Low5(x) == x % 32

\* A case conversion that leaves every character as it is.
KeepCase(ch) == ch

\* String.prototype.toUpperCase on ASCII.
ToUpperCase(ch) == IF ch >= 97 /\ ch <= 122 THEN ch - 32 ELSE ch
UpperCase(str) == [i \in 1..Len(str) |-> ToUpperCase(str[i])]

\* A polymod step that mixes nothing in: only the shift.
ShiftOnlyStep(pre) == ShiftLeft(pre % 2^25, 5)

bech32PolymodStep(pre) ==
    LET b == ShiftRight(pre, 25)
        Term(i, k) == IF ShiftRight(b, i) % 2 = 1 THEN k ELSE 0
    IN  BitXor(BitXor(BitXor(BitXor(BitXor(ShiftLeft(pre % 2^25, 5),
            Term(0, 62302890)), Term(1, 29709654)), Term(2, 15311570)),
            Term(3, 7656236)), Term(4, 3828037))

\* for (let d of values) polymod = bech32PolymodStep(polymod) ^ d
\* (a polymod is never negative; comparing it with 0 evaluates it before the
\* loop goes on).
RECURSIVE PolymodOver(_, _)
PolymodOver(polymod, values) ==
    LET next == BitXor(bech32PolymodStep(polymod), Head(values))
    IN  IF values = <<>> THEN polymod
        ELSE IF next >= 0 THEN PolymodOver(next, Tail(values))
        ELSE next

\* The prefix characters and the separator feed charCodeAt(0) & 0x1f.
bech32CreateChecksum(prefix, data) ==
    LET chars == prefix \o Separator
        low == [i \in 1..Len(chars) |-> Low5(chars[i])]
        polymod == BitXor(PolymodOver(PolymodOver(PolymodOver(1, low), data),
                                      <<0, 0, 0, 0, 0, 0>>), 1)
    IN  [i \in 1..6 |-> Low5(ShiftRight(polymod, 5 * (6 - i)))]

\* The values polymod takes in bech32CreateChecksum before the final ^= 1: the
\* initial 1 and the remainder after each prefix character, the separator, each
\* data value and each of the six closing steps.
Remainders(prefix, data) ==
    LET chars == prefix \o Separator
        fed == [i \in 1..Len(chars) |-> Low5(chars[i])] \o data \o <<0, 0, 0, 0, 0, 0>>
    IN  [i \in 1..(Len(fed) + 1) |-> PolymodOver(1, SubSeq(fed, 1, i - 1))]

\* while (bitsLen >= 5) { bitsLen -= 5; words.push((bits >> bitsLen) & 31) }
RECURSIVE Drain(_, _, _)
Drain(bits, bitsLen, words) ==
    IF bitsLen >= 5
    THEN Drain(bits, bitsLen - 5, Append(words, Low5(ShiftRight(bits, bitsLen - 5))))
    ELSE [bitsLen |-> bitsLen, words |-> words]

RECURSIVE To5BitLoop(_, _, _, _)
To5BitLoop(data, bits, bitsLen, words) ==
    IF data = <<>>
    THEN IF bitsLen > 0 THEN Append(words, Low5(ShiftLeft(bits, 5 - bitsLen))) ELSE words
    ELSE LET shifted == ShiftLeft(bits, 8) + Head(data)
             drained == Drain(shifted, bitsLen + 8, words)
         IN  To5BitLoop(Tail(data), shifted, drained.bitsLen, drained.words)

\* A regrouping that drops the final partial group instead of padding it.
To5BitWithoutPadding(data) ==
    SubSeq(To5BitLoop(data, 0, 0, <<>>), 1, (8 * Len(data)) \div 5)

bech32To5Bit(data) == To5BitLoop(data, 0, 0, <<>>)

bech32Encode(prefix, data) ==
    LET words == bech32To5Bit(data)
        checksum == bech32CreateChecksum(prefix, words)
        combined == words \o checksum
    IN  UpperCase(prefix \o Separator
                  \o [i \in 1..Len(combined) |-> CHARSET[combined[i] + 1]])

\* The longest byte sequence encoded.
MaxBytes == 2
ByteValues == {0, 1, 255}
ByteSeqs == UNION {[1..n -> ByteValues] : n \in 0..MaxBytes}

\* The prefixes "a", "A", "b" and "ln".
Prefixes == {<<97>>, <<65>>, <<98>>, <<108, 110>>}

EncodeInputs == [prefix : Prefixes, data : ByteSeqs]

\* Two calls of bech32Encode.
PairInputs == [fn : {"bech32Encode"}, a : EncodeInputs, b : EncodeInputs]

\* The characters put in place of one character of an encoded string:
\* "!", "a", "P", "Q".
ReplacementChars == {33, 97, 80, 81}

\* The longest byte sequence regrouped: with five bytes the accumulator of
\* bech32To5Bit has shifted 40 bits through its 32.
MaxRegroupBytes == 5
RegroupByteValues == {0, 1, 170, 255}
RegroupInputs ==
    [fn : {"bech32To5Bit"},
     data : UNION {[1..n -> RegroupByteValues] : n \in 0..MaxRegroupBytes}]

\* One call of bech32Encode and the replacement of the character at pos, which
\* is not the separator, by a different character.
MutationInputs ==
    {m \in [fn : {"mutate"}, a : EncodeInputs,
            pos : 1..(2 + 1 + ((8 * MaxBytes + 4) \div 5) + 6), ch : ReplacementChars] :
        LET encoded == bech32Encode(m.a.prefix, m.a.data)
        IN  /\ m.pos <= Len(encoded)
            /\ m.pos # Len(m.a.prefix) + 1
            /\ encoded[m.pos] # m.ch}

-----------------------------------------------------------------------------
(* Specifications.                                                         *)

\* Calls of validateZapReceipt on the events a relay can deliver.
ReceiptInputs ==
    [fn : {"validateZapReceipt"}, event : Events, request : {NullValue},
     session : SessionIds, expected : ExpectedAmounts, recipient : RecipientConfigs]

\* Calls of validateZapRequest on what a description can parse to: a request
\* object, one whose tags are bare strings, one without tags, and null.
DirectRequests ==
    ZapRequests \cup {NullValue,
                      ReqObj(ZapRequestKind, Sender, <<StrElem("amount"), StrElem("p")>>),
                      NamingSession(ReqObj(ZapRequestKind, Sender,
                                           <<StrElem("amount"), StrElem("p")>>),
                                    generateSessionId(2)),
                      [ReqObj(ZapRequestKind, Sender, <<>>) EXCEPT !.hasTags = FALSE]}

RequestInputs ==
    [fn : {"validateZapRequest"}, event : {NoEvent}, request : DirectRequests,
     session : SessionIds, expected : ExpectedAmounts, recipient : RecipientConfigs]

VInputs == ReceiptInputs \cup RequestInputs

VOff ==
    /\ vin = [fn |-> "none", event |-> NoEvent, request |-> NullValue, session |-> "",
              expected |-> minPaymentSats, recipient |-> ""]
    /\ vpc = "off"
    /\ vout = Reject("")

FlowInit ==
    /\ relayReady = FALSE
    /\ ndk = "null"
    /\ recipientNostrPubkey = ""
    /\ paymentInProgress = FALSE
    /\ currentSession = NoSession
    /\ calls = [c \in CallIds |-> IdleCall]
    /\ gameUnlocked = FALSE
    /\ paymentStatus = ""

\* The payment manager on its own, under any caller of its methods.
Init == FlowInit /\ VOff

Next ==
    \/ \E c \in CallIds, a \in AmountArgs :
          initiatePayment(c, a) /\ UNCHANGED gvars /\ UNCHANGED vvars
    \/ \E c \in CallIds, r \in MetadataResponses :
          MetadataResponds(c, r) /\ UNCHANGED gvars /\ UNCHANGED vvars
    \/ \E c \in CallIds, r \in CallbackResponses :
          CallbackResponds(c, r) /\ UNCHANGED gvars /\ UNCHANGED vvars
    \/ completePayment /\ UNCHANGED gvars /\ UNCHANGED vvars
    \/ resetPayment /\ UNCHANGED gvars /\ UNCHANGED vvars

Spec == Init /\ [][Next]_vars

\* The assembled page: SatSnakeGame, its relay manager and its payment manager.
GameInit == FlowInit /\ VOff

GameNext ==
    \/ \E o \in InitializeOutcomes : initializePaymentSystem(o) /\ UNCHANGED vvars
    \/ \E c \in CallIds : GameInitiatePayment(c) /\ UNCHANGED vvars
    \/ \E c \in CallIds, r \in MetadataResponses : GameMetadataResponds(c, r) /\ UNCHANGED vvars
    \/ \E c \in CallIds, r \in CallbackResponses : GameCallbackResponds(c, r) /\ UNCHANGED vvars
    \/ \E c \in CallIds, ev \in FlowEvents : ZapEventHandler(c, ev) /\ UNCHANGED vvars
    \/ \E c \in CallIds : TimerFires(c) /\ UNCHANGED vvars

GameSpec == GameInit /\ [][GameNext]_vars

\* The validators as functions of their arguments.
VInit ==
    /\ FlowInit
    /\ vin \in VInputs
    /\ vpc = "ready"
    /\ vout = Reject("")

\* One call of validateZapReceipt on the drawn arguments.
VValidate ==
    /\ vpc = "ready"
    /\ vin.fn = "validateZapReceipt"
    /\ vout' = validateZapReceipt(vin.event, vin.session, vin.expected, vin.recipient)
    /\ vpc' = "returned"
    /\ UNCHANGED vin
    /\ UNCHANGED fvars

\* One call of validateZapRequest on the drawn arguments.
VValidateRequest ==
    /\ vpc = "ready"
    /\ vin.fn = "validateZapRequest"
    /\ vout' = validateZapRequest(vin.request, vin.session, vin.expected, vin.recipient)
    /\ vpc' = "returned"
    /\ UNCHANGED vin
    /\ UNCHANGED fvars

VNext == VValidate \/ VValidateRequest

VSpec == VInit /\ [][VNext]_vars

\* Every entry point of the core on its own: the payment manager under any
\* caller, or one call of a validator.
EntryInit == Init \/ VInit

EntryNext ==
    \/ vpc = "off" /\ Next
    \/ VNext

EntrySpec == EntryInit /\ [][EntryNext]_vars

\* The bech32 encoder as a function of its arguments.
BechInit ==
    /\ FlowInit
    /\ vin \in PairInputs \/ vin \in MutationInputs \/ vin \in RegroupInputs
    /\ vpc = "ready"
    /\ vout = <<>>

\* bech32Encode on each of the two drawn inputs.
BEncodePair ==
    /\ vpc = "ready"
    /\ vin.fn = "bech32Encode"
    /\ vout' = [a |-> bech32Encode(vin.a.prefix, vin.a.data),
                b |-> bech32Encode(vin.b.prefix, vin.b.data)]
    /\ vpc' = "returned"
    /\ UNCHANGED vin
    /\ UNCHANGED fvars

\* bech32Encode on the drawn input, then one character of the result replaced.
BEncodeMutate ==
    /\ vpc = "ready"
    /\ vin.fn = "mutate"
    /\ LET encoded == bech32Encode(vin.a.prefix, vin.a.data)
       IN  vout' = [encoded |-> encoded, mutated |-> [encoded EXCEPT ![vin.pos] = vin.ch]]
    /\ vpc' = "returned"
    /\ UNCHANGED vin
    /\ UNCHANGED fvars

\* bech32To5Bit on the drawn bytes.
BRegroup ==
    /\ vpc = "ready"
    /\ vin.fn = "bech32To5Bit"
    /\ vout' = bech32To5Bit(vin.data)
    /\ vpc' = "returned"
    /\ UNCHANGED vin
    /\ UNCHANGED fvars

BechNext == BEncodePair \/ BEncodeMutate \/ BRegroup

BechSpec == BechInit /\ [][BechNext]_vars

-----------------------------------------------------------------------------
(* The validation rules as section 4.5 of the specification states them,   *)
(* over tag lists of key/value pairs with first-matching-key lookup.       *)

IsPairList(tags) == \A i \in 1..Len(tags) : tags[i].ty = "array"
HasTag(tags, key) == FirstKeyIndex(tags, key, 1) # 0
TagValue(tags, key) == TagFindByKey(tags, key).k

EmbeddedRequest(ev) == JsonParse(TagValue(ev.tags, "description"))
EmbeddedMsats(ev) == ParseInt(TagValue(EmbeddedRequest(ev).val.tags, "amount"))
EmbeddedSats(ev) == FloorDiv(EmbeddedMsats(ev), MsatsPerSat)

\* Rules 1 to 6: kind, signature fields, required tags, recipient, parse, kind.
Rules1to6(ev, recipient) ==
    /\ ev.kind = ZapReceiptKind
    /\ verifyEventSignature(ev)
    /\ ev.hasTags /\ IsPairList(ev.tags)
    /\ HasTag(ev.tags, "bolt11") /\ HasTag(ev.tags, "description") /\ HasTag(ev.tags, "p")
    /\ TagValue(ev.tags, "p") = recipient
    /\ EmbeddedRequest(ev).ok
    /\ EmbeddedRequest(ev).val.isObj
    /\ EmbeddedRequest(ev).val.kind = ZapRequestKind

\* The embedded request carries an amount tag that is a decimal number.
HasAmount(ev) ==
    /\ HasTag(EmbeddedRequest(ev).val.tags, "amount")
    /\ EmbeddedMsats(ev) # NaN

\* Rule 8: the embedded request names the recipient.
Rule8(ev, recipient) ==
    /\ HasTag(EmbeddedRequest(ev).val.tags, "p")
    /\ TagValue(EmbeddedRequest(ev).val.tags, "p") = recipient

\* Rules 1 to 8 for a session expecting `expected` sats.
SatisfiesRules(ev, expected, recipient) ==
    /\ Rules1to6(ev, recipient)
    /\ HasAmount(ev)
    /\ EmbeddedSats(ev) >= expected
    /\ Rule8(ev, recipient)

-----------------------------------------------------------------------------
(* Claims.                                                                 *)

Negotiating(c) == calls[c].pc \in {"awaitMetadata", "awaitCallback"}
AwaitingReceipt(c) ==
    /\ calls[c].pc \in {"returned", "listening", "listenError"}
    /\ currentSession # NoSession
    /\ currentSession.id = calls[c].sessionId
InFlight(c) == Negotiating(c) \/ AwaitingReceipt(c)
Enters(c) == calls[c].pc = "idle" /\ calls'[c].pc # "idle"

\* C2: a call of initiatePayment made while another call is still negotiating
\* or a session is stored awaiting its receipt returns null, issues no
\* request, and leaves paymentInProgress and currentSession as they were.
C2_SingleFlightRejection ==
    [][\A c \in CallIds :
          (Enters(c) /\ \E d \in CallIds : InFlight(d))
          => /\ calls'[c].pc = "rejected"
             /\ calls'[c].result = NullResult
             /\ calls'[c].metaFetches = 0
             /\ UNCHANGED <<paymentInProgress, currentSession>>]_vars

\* C3: under every interleaving of the manager's methods at most one payment
\* attempt (a negotiating call, or a call whose session awaits its receipt) is
\* in flight.
C3_AtMostOneInFlight ==
    \A c, d \in CallIds : (InFlight(c) /\ InFlight(d)) => c = d

\* C4: the callback is requested, and a session stored, only for an amount
\* inside the closed interval [minSendable, maxSendable] of the metadata.
C4_AmountBoundsRejection ==
    \A c \in CallIds :
        calls[c].pc \in {"awaitCallback", "returned"}
        => /\ calls[c].lnurlData.minSendable <= calls[c].amount * MsatsPerSat
           /\ calls[c].amount * MsatsPerSat <= calls[c].lnurlData.maxSendable

\* C5: a receipt that meets every rule but the amount rule is rejected as
\* insufficient when its embedded amount a is below the expected e, and is
\* accepted with amountSats = a when a >= e.
C5_AmountThreshold ==
    (/\ vpc = "returned"
     /\ Rules1to6(vin.event, vin.recipient)
     /\ HasAmount(vin.event)
     /\ Rule8(vin.event, vin.recipient))
    => IF EmbeddedSats(vin.event) < vin.expected
       THEN /\ ~vout.valid
            /\ vout.reason = InsufficientAmount(EmbeddedSats(vin.event), vin.expected)
       ELSE /\ vout.valid
            /\ vout.amountSats = EmbeddedSats(vin.event)

\* C6: a receipt that satisfies rules 1 to 8 is accepted, with the embedded
\* request's pubkey, the embedded amount in sats, and the bolt11 tag's value.
C6_ValidReceiptAccepted ==
    (vpc = "returned" /\ SatisfiesRules(vin.event, vin.expected, vin.recipient))
    => /\ vout.valid
       /\ vout.senderPubkey = EmbeddedRequest(vin.event).val.pubkey
       /\ vout.amountSats = EmbeddedSats(vin.event)
       /\ vout.bolt11 = TagValue(vin.event.tags, "bolt11")

\* A kind-9735 receipt with its signature fields whose tag list (of key/value
\* pairs) has no p tag.
MissingRecipientTag(ev) ==
    /\ ev.kind = ZapReceiptKind
    /\ verifyEventSignature(ev)
    /\ ev.hasTags /\ IsPairList(ev.tags)
    /\ ~HasTag(ev.tags, "p")

\* C7 as stated: such a receipt is rejected with "Recipient mismatch".
C7_MissingRecipientIsMismatch ==
    (vpc = "returned" /\ MissingRecipientTag(vin.event))
    => (~vout.valid /\ vout.reason = "Recipient mismatch")

\* C7 amended: such a receipt is rejected with "Missing required zap receipt
\* tags" (the required-tags rule precedes the recipient rule), also when its
\* invoice and description tags are perfect.
C7_MissingRecipientIsMissingTag ==
    (vpc = "returned" /\ MissingRecipientTag(vin.event))
    => (~vout.valid /\ vout.reason = "Missing required zap receipt tags")

\* A receipt without p tag whose invoice and description tags are perfect has
\* been rejected.
C7_Witness ==
    /\ vpc = "returned"
    /\ MissingRecipientTag(vin.event)
    /\ HasTag(vin.event.tags, "bolt11")
    /\ HasTag(vin.event.tags, "description")
    /\ EmbeddedRequest(vin.event).ok
    /\ EmbeddedRequest(vin.event).val.kind = ZapRequestKind
    /\ HasAmount(vin.event)
    /\ EmbeddedSats(vin.event) >= vin.expected
    /\ Rule8(vin.event, vin.recipient)
    /\ ~vout.valid

\* C8: the confirmation callback, and with it unlockGame/completePayment, runs
\* at most once per subscription, whatever events are delivered.
C8_AtMostOneConfirmation ==
    \A c \in CallIds : calls[c].callbacks <= 1 /\ calls[c].unlocks <= 1

\* Two receipts that satisfy rules 1 to 8 were delivered back to back to one
\* subscription.
C8_Witness ==
    \E c \in CallIds :
        /\ calls[c].deliveries >= 2
        /\ SatisfiesRules(calls[c].prevEvent, calls[c].amount, recipientNostrPubkey)
        /\ SatisfiesRules(calls[c].lastEvent, calls[c].amount, recipientNostrPubkey)
        /\ calls[c].callbacks <= 1

C10_TimeoutTearsDown ==
    \A c \in CallIds : calls[c].timer = "fired" => calls[c].sub # "active"

\* C11: a session that reached a terminal state (its receipt was confirmed, or
\* its receipt timer fired) is released: paymentInProgress is false and
\* currentSession is cleared, so that a later initiatePayment is admitted.
C11_TerminalReleasesSession ==
    \A c \in CallIds :
        (calls[c].timer = "fired" \/ calls[c].callbacks > 0)
        => (~paymentInProgress /\ currentSession = NoSession)

\* C12: an event that fails validation leaves the session listening, unconfirmed
\* and stored, and a receipt satisfying rules 1 to 8 that is delivered while the
\* timer is still armed confirms the session.
C12_RejectedEventKeepsListening ==
    \A c \in CallIds :
        (calls[c].deliveries >= 1 /\ ~calls[c].lastLate)
        => IF SatisfiesRules(calls[c].lastEvent, calls[c].amount, recipientNostrPubkey)
           THEN calls[c].callbacks = 1 /\ gameUnlocked
           ELSE calls[c].callbacks = 0
                => /\ calls[c].sub = "active"
                   /\ calls[c].timer \in {"armed", "fired"}
                   /\ paymentInProgress
                   /\ currentSession.id = calls[c].sessionId

\* The metadata and callback answers that let a negotiation succeed.
UsableMetadata(d) == d.ok /\ d.status # "ERROR" /\ d.callback # "" /\ d.allowsNostr
GoodCallbackResponse(r) == r.ok /\ r.status # "ERROR" /\ r.pr # ""

\* C13: a call of initiatePayment that fails while negotiating returns null,
\* leaves paymentInProgress false and stores no session; a session is stored
\* only by a call whose metadata fetch and callback request both succeeded, and
\* then with the callback's non-empty invoice.
C13_FailureReleasesLock ==
    [][\A c \in CallIds :
          /\ (Negotiating(c) /\ calls'[c].pc = "failed")
             => /\ calls'[c].result = NullResult
                /\ ~paymentInProgress'
                /\ currentSession' = currentSession
                /\ currentSession'.id # calls[c].sessionId
          /\ (currentSession' # currentSession /\ currentSession' # NoSession
              /\ currentSession'.id = calls[c].sessionId)
             => /\ calls[c].pc = "awaitCallback"
                /\ calls'[c].pc = "returned"
                /\ UsableMetadata(calls[c].lnurlData)
                /\ GoodCallbackResponse(calls'[c].callbackResponse)
                /\ currentSession'.invoice = calls'[c].callbackResponse.pr]_vars

\* A call failed at its callback request: the flag is released, nothing stored.
C13_Witness ==
    \E c \in CallIds :
        /\ calls[c].pc = "failed"
        /\ calls[c].callbackFetches = 1
        /\ calls[c].callbackResponse \in CallbackResponses
        /\ ~paymentInProgress
        /\ currentSession = NoSession

\* C15: a stored session has amountMsats = 1000 x amountSats, its zap request's
\* amount tag and the callback's amount parameter are the decimal string of
\* that amountMsats, and the id returned to the caller, the stored id and the
\* id in the zap request's content are the one id of the attempt; what a call
\* returned and what is stored under an id never change.
C15_SessionAmountsAndId ==
    [][/\ (currentSession' # NoSession
           => /\ currentSession'.amountMsats = MsatsPerSat * currentSession'.amountSats
              /\ TagValue(currentSession'.zapRequest.tags, "amount")
                    = ToString(currentSession'.amountMsats)
              /\ currentSession'.zapRequest.content = SessionContent(currentSession'.id)
              /\ \E c \in CallIds :
                    /\ calls'[c].pc = "returned"
                    /\ calls'[c].sessionId = currentSession'.id
                    /\ calls'[c].result.sessionId = currentSession'.id
                    /\ calls'[c].result.amountSats = currentSession'.amountSats
                    /\ calls'[c].callbackAmount = ToString(currentSession'.amountMsats))
       /\ \A c \in CallIds :
             calls[c].pc = "returned"
             => /\ calls'[c].result = calls[c].result
                /\ calls'[c].sessionId = calls[c].sessionId
       /\ (currentSession # NoSession /\ currentSession'.id = currentSession.id)
          => currentSession' = currentSession]_vars

\* A session for 501 sats is stored.
C15_Witness ==
    /\ currentSession # NoSession
    /\ currentSession.amountSats = 501
    /\ currentSession.amountMsats = 501000
    /\ \E c \in CallIds : calls[c].pc = "returned" /\ calls[c].callbackAmount = "501000"

\* C16: no callback request and no payment result comes from metadata that
\* lacks its callback, its minSendable or its maxSendable.
C16_ResolverMandatoryFields ==
    \A c \in CallIds :
        calls[c].pc \in {"awaitCallback", "returned"}
        => /\ calls[c].lnurlData.callback # ""
           /\ calls[c].lnurlData.minSendable # NoBound
           /\ calls[c].lnurlData.maxSendable # NoBound

\* C17: once the callback has answered, initiatePayment returned the pr field,
\* with the call's amount and id, exactly when the answer was 2xx, without the
\* error discriminator and with a non-empty pr, and that pr is the invoice it
\* stored; otherwise it returned null.
C17_NegotiatorResult ==
    [][\A c \in CallIds :
          (calls[c].pc = "awaitCallback" /\ calls'[c].pc # "awaitCallback")
          => LET r == calls'[c].callbackResponse
             IN  IF GoodCallbackResponse(r)
                 THEN /\ calls'[c].pc = "returned"
                      /\ calls'[c].result = [ok |-> TRUE, invoice |-> r.pr,
                                             amountSats |-> calls[c].amount,
                                             sessionId |-> calls[c].sessionId]
                      /\ currentSession'.id = calls[c].sessionId
                      /\ currentSession'.invoice = r.pr
                 ELSE /\ calls'[c].pc = "failed"
                      /\ calls'[c].result = NullResult
                      /\ currentSession' = currentSession]_vars

\* A call for the default 100 sats asked the callback for 100000 msats, was
\* answered with a pr, and returned and stored it.
C17_Witness ==
    \E c \in CallIds :
        /\ calls[c].pc = "returned"
        /\ calls[c].callbackAmount = "100000"
        /\ calls[c].callbackResponse.pr = "lntb2"
        /\ calls[c].result.invoice = "lntb2"
        /\ calls[c].result.amountSats = minPaymentSats
        /\ currentSession.invoice = "lntb2"

C18_NoFailureIsACrash ==
    /\ vpc = "returned"
       => /\ ~vout.thrown
          /\ vout.valid \/ vout.reason # ""
    /\ \A c \in CallIds :
          \/ calls[c].pc \in {"idle", "awaitMetadata", "awaitCallback"}
          \/ calls[c].pc \in {"rejected", "failed"} /\ calls[c].result = NullResult
          \/ calls[c].pc = "returned" /\ calls[c].result.ok

\* A validator was called on an input that makes its body throw a TypeError
\* (an event without tags, a null or tag-less request) and returned the
\* error's message as the reason.
C18_Witness ==
    /\ vpc = "returned"
    /\ \/ vin.fn = "validateZapReceipt" /\ ~vin.event.hasTags
             /\ vin.event.kind = ZapReceiptKind /\ verifyEventSignature(vin.event)
       \/ vin.fn = "validateZapRequest" /\ ~vin.request.isObj
    /\ vout = Reject(TypeErrorMessage)

\* C19: decoding the string bech32Encode produces recovers (prefix, bytes),
\* and so bech32Encode is injective: two different (prefix, bytes) inputs
\* never produce the same encoded string.
C19_EncodeInjective ==
    (vpc = "returned" /\ vin.fn = "bech32Encode" /\ vin.a # vin.b)
    => vout.a # vout.b

\* The encoded strings differ exactly when the bytes differ or the prefixes
\* differ by more than the case of their letters.
SameUpToPrefixCase(x, y) == UpperCase(x.prefix) = UpperCase(y.prefix) /\ x.data = y.data

\* The symbol a character of an encoded string stands for; 32 for a character
\* outside the encoder's alphabet.
SymbolOf(ch) ==
    IF \E i \in 1..Len(CHARSET) : ToUpperCase(CHARSET[i]) = ch
    THEN (CHOOSE i \in 1..Len(CHARSET) : ToUpperCase(CHARSET[i]) = ch) - 1
    ELSE Len(CHARSET)

\* Checksum verification of a string whose prefix has prefixLen characters:
\* its last six symbols are the checksum bech32CreateChecksum computes for
\* its prefix and the data symbols before them.
Verifies(str, prefixLen) ==
    LET prefix == SubSeq(str, 1, prefixLen)
        symbols == [i \in 1..(Len(str) - prefixLen - 1) |-> SymbolOf(str[prefixLen + 1 + i])]
        n == Len(symbols)
    IN  /\ n >= 6
        /\ SubSeq(symbols, n - 5, n) = bech32CreateChecksum(prefix, SubSeq(symbols, 1, n - 6))

\* Regrouping 5-bit groups into bytes, most significant bit first; the padding
\* bits of the last group are dropped.
RECURSIVE From5BitLoop(_, _, _, _)
From5BitLoop(words, bits, bitsLen, bytes) ==
    IF words = <<>> THEN bytes
    ELSE LET acc == bits * 32 + Head(words)
             n == bitsLen + 5
         IN  IF n >= 8
             THEN From5BitLoop(Tail(words), acc % 2^(n - 8), n - 8,
                               Append(bytes, acc \div 2^(n - 8)))
             ELSE From5BitLoop(Tail(words), acc, n, bytes)

\* The decoder section 4.1 of the specification asks for: the prefix is what
\* precedes the separator, the payload the symbols between the separator and
\* the six checksum symbols.
bech32Decode(str) ==
    LET sep == CHOOSE i \in 1..Len(str) :
                  str[i] = Separator[1] /\ \A j \in (i + 1)..Len(str) : str[j] # Separator[1]
        symbols == [i \in 1..(Len(str) - sep) |-> SymbolOf(str[sep + i])]
    IN  [prefix |-> SubSeq(str, 1, sep - 1),
         data |-> From5BitLoop(SubSeq(symbols, 1, Len(symbols) - 6), 0, 0, <<>>)]

\* C19 amended: decoding an encoded string recovers the bytes exactly and the
\* prefix in upper case, its checksum verifies, and two inputs produce the
\* same string exactly when they have the same bytes and the same prefix up
\* to the case of its letters.
C19_RoundTripUpToPrefixCase ==
    (vpc = "returned" /\ vin.fn = "bech32Encode")
    => /\ bech32Decode(vout.a) = [prefix |-> UpperCase(vin.a.prefix), data |-> vin.a.data]
       /\ Verifies(vout.a, Len(vin.a.prefix))
       /\ (vout.a = vout.b) = SameUpToPrefixCase(vin.a, vin.b)

\* Two inputs with the same prefix whose two-byte payloads differ in their
\* last bit only have been encoded, to different strings.
C19_Witness ==
    /\ vpc = "returned"
    /\ vin.fn = "bech32Encode"
    /\ vin.a.prefix = vin.b.prefix
    /\ Len(vin.a.data) = 2 /\ Len(vin.b.data) = 2
    /\ vin.a.data[1] = vin.b.data[1]
    /\ vin.a.data[2] = 0 /\ vin.b.data[2] = 1
    /\ vout.a # vout.b

\* The replaced character stands in the prefix.
InPrefix == vin.pos <= Len(vin.a.prefix)

\* C20 amended: an encoded string with one data or checksum character
\* replaced by a different character, or one prefix character replaced by a
\* character whose lower 5 bits differ, fails checksum verification; with a
\* prefix character replaced by one of the same lower 5 bits it verifies.
C20_ErrorDetectedBeyondPrefixHighBits ==
    (vpc = "returned" /\ vin.fn = "mutate")
    => (Verifies(vout.mutated, Len(vin.a.prefix))
        = (InPrefix /\ Low5(vout.mutated[vin.pos]) = Low5(vout.encoded[vin.pos])))

\* A data symbol of an encoded string was replaced by another symbol of the
\* alphabet, and the string fails verification.
C20_Witness ==
    /\ vpc = "returned"
    /\ vin.fn = "mutate"
    /\ vin.pos > Len(vin.a.prefix) + 1
    /\ vin.pos <= Len(vout.encoded) - 6
    /\ SymbolOf(vin.ch) < Len(CHARSET)
    /\ ~Verifies(vout.mutated, Len(vin.a.prefix))

\* The bits of a sequence of width-bit values, most significant bit first.
BitsOf(values, width) ==
    [i \in 1..(Len(values) * width) |->
        (values[((i - 1) \div width) + 1] \div 2^(width - 1 - ((i - 1) % width))) % 2]

\* C21: for n bytes bech32To5Bit returns exactly ceil(8n/5) values in 0..31
\* whose bits, most significant first, are the bits of the bytes followed by
\* zero bits only, also when the accumulator has wrapped around 32 bits.
C21_RegroupKeepsEveryBit ==
    (vpc = "returned" /\ vin.fn = "bech32To5Bit")
    => LET payload == BitsOf(vin.data, 8)
           groups == BitsOf(vout, 5)
       IN  /\ Len(vout) = (8 * Len(vin.data) + 4) \div 5
           /\ \A i \in 1..Len(vout) : vout[i] \in 0..31
           /\ \A i \in 1..Len(groups) :
                 groups[i] = IF i <= Len(payload) THEN payload[i] ELSE 0

\* Five bytes whose first has its top bit set were regrouped into eight
\* values: the accumulator went negative at the fourth byte and lost its
\* first byte at the fifth.
C21_Witness ==
    /\ vpc = "returned"
    /\ vin.fn = "bech32To5Bit"
    /\ Len(vin.data) = 5
    /\ vin.data[1] = 255
    /\ vin.data[5] = 170
    /\ Len(vout) = 8

\* The characters of the charset in the case the encoder writes them.
CharsetChars == {ToUpperCase(CHARSET[i]) : i \in 1..Len(CHARSET)}

\* C22: for a payload of n bytes bech32Encode returns the prefix and the
\* separator followed by exactly ceil(8n/5) + 6 symbols of the charset, the
\* whole string in one case (upper case, prefix included); the checksum
\* remainder stays below 2^30 at every step and the six checksum indices are
\* in 0..31; for the empty payload the symbols are the six checksum symbols.
\* (Every input is drawn once as the pair of itself and itself.)
C22_OutputShape ==
    (vpc = "returned" /\ vin.fn = "bech32Encode" /\ vin.b = vin.a)
    => LET head == Len(vin.a.prefix) + 1
           words == bech32To5Bit(vin.a.data)
           remainders == Remainders(vin.a.prefix, words)
           checksum == bech32CreateChecksum(vin.a.prefix, words)
       IN  /\ Len(vout.a) = head + ((8 * Len(vin.a.data) + 4) \div 5) + 6
           /\ SubSeq(vout.a, 1, head) = UpperCase(vin.a.prefix \o Separator)
           /\ \A i \in (head + 1)..Len(vout.a) : vout.a[i] \in CharsetChars
           /\ \A i \in 1..Len(vout.a) : ~(vout.a[i] >= 97 /\ vout.a[i] <= 122)
           /\ \A i \in 1..Len(remainders) : remainders[i] >= 0 /\ remainders[i] < 2^30
           /\ \A i \in 1..6 : checksum[i] \in 0..31
           /\ \A i \in 1..6 : vout.a[Len(vout.a) - 6 + i] = ToUpperCase(CHARSET[checksum[i] + 1])
           /\ vin.a.data = <<>> => Len(vout.a) = head + 6

\* The lower-case prefix "ln" was encoded with the empty payload: the string
\* is "LN1" and six symbols.
C22_Witness ==
    /\ vpc = "returned"
    /\ vin.fn = "bech32Encode"
    /\ vin.a.prefix = <<108, 110>>
    /\ vin.a.data = <<>>
    /\ vin.b = vin.a
    /\ Len(vout.a) = 9
    /\ SubSeq(vout.a, 1, 3) = <<76, 78, 49>>

\* C20: an encoded string with any one character of its prefix, data or
\* checksum replaced by a different character fails checksum verification.
C20_SingleCharacterErrorDetected ==
    (vpc = "returned" /\ vin.fn = "mutate")
    => ~Verifies(vout.mutated, Len(vin.a.prefix))

\* The first of rules 1 to 8 of section 4.5 that an event with key/value tags
\* violates, 0 when it violates none.
EarliestViolatedRule(ev, expected, recipient) ==
    IF ev.kind # ZapReceiptKind THEN 1
    ELSE IF ~verifyEventSignature(ev) THEN 2
    ELSE IF ~(HasTag(ev.tags, "bolt11") /\ HasTag(ev.tags, "description")
              /\ HasTag(ev.tags, "p")) THEN 3
    ELSE IF TagValue(ev.tags, "p") # recipient THEN 4
    ELSE IF ~(EmbeddedRequest(ev).ok /\ EmbeddedRequest(ev).val.isObj) THEN 5
    ELSE IF EmbeddedRequest(ev).val.kind # ZapRequestKind THEN 6
    ELSE IF ~(HasAmount(ev) /\ EmbeddedSats(ev) >= expected) THEN 7
    ELSE IF ~Rule8(ev, recipient) THEN 8
    ELSE 0

\* The rule a validation outcome reports: 0 for valid, 9 for a reason that
\* belongs to no rule.
ReportedRule(outcome) ==
    IF outcome.valid THEN 0
    ELSE IF outcome.reason = "Not a zap receipt (kind 9735)" THEN 1
    ELSE IF outcome.reason = "Invalid event signature" THEN 2
    ELSE IF outcome.reason = "Missing required zap receipt tags" THEN 3
    ELSE IF outcome.reason = "Recipient mismatch" THEN 4
    ELSE IF outcome.reason = "Invalid zap request JSON" THEN 5
    ELSE IF outcome.reason = "Invalid zap request kind" THEN 6
    ELSE IF outcome.reason = "No amount in zap request"
            \/ \E a \in {n \div MsatsPerSat : n \in AmountValues} \cup {NaN},
                  e \in ExpectedAmounts : outcome.reason = InsufficientAmount(a, e)
         THEN 7
    ELSE IF outcome.reason = "Zap recipient mismatch" THEN 8
    ELSE 9

\* C23: validateZapReceipt reports the earliest violated rule in the order
\* receipt kind, signature fields, required tags, receipt recipient,
\* embedded-request parse, embedded-request kind, embedded amount, embedded
\* recipient, whatever later rules the event violates as well.
C23_EarliestViolatedRuleReported ==
    (/\ vpc = "returned"
     /\ vin.fn = "validateZapReceipt"
     /\ vin.event.hasTags /\ IsPairList(vin.event.tags))
    => ReportedRule(vout) = EarliestViolatedRule(vin.event, vin.expected, vin.recipient)

\* The event with the content of its embedded request, where it carries one,
\* replaced by the content of the given session.
ReceiptNaming(ev, sessionId) ==
    [ev EXCEPT !.tags =
        [i \in 1..Len(ev.tags) |->
            LET t == ev.tags[i]
            IN  IF t.ty = "array" /\ t.k = "description"
                   /\ JsonParse(t.v).ok /\ JsonParse(t.v).val.isObj
                THEN PairElem("description",
                              Stringify(NamingSession(JsonParse(t.v).val, sessionId)))
                ELSE t]]

\* C24: the outcome of validateZapReceipt, and of validateZapRequest on the
\* embedded request, is the same for every value of the session id argument,
\* and a receipt or request whose content names another session gets the
\* outcome of one naming this session.
C24_OutcomeIndependentOfSession ==
    /\ (vpc = "returned" /\ vin.fn = "validateZapReceipt")
       => \A sid \in SessionIds :
             /\ validateZapReceipt(vin.event, sid, vin.expected, vin.recipient) = vout
             /\ validateZapReceipt(ReceiptNaming(vin.event, sid), vin.session,
                                   vin.expected, vin.recipient) = vout
    /\ (vpc = "returned" /\ vin.fn = "validateZapRequest")
       => \A sid \in SessionIds :
             /\ validateZapRequest(vin.request, sid, vin.expected, vin.recipient) = vout
             /\ vin.request.isObj
                => validateZapRequest(NamingSession(vin.request, sid), vin.session,
                                      vin.expected, vin.recipient) = vout

\* A request whose content names the second session was validated for the
\* first session and accepted.
C24_Witness ==
    /\ vpc = "returned"
    /\ vin.fn = "validateZapRequest"
    /\ vin.session = generateSessionId(1)
    /\ vin.request.isObj
    /\ vin.request.content = SessionContent(generateSessionId(2))
    /\ vout.valid

\* C25: the filter of a session's subscription restricts kinds to 9735,
\* authors to the resolved, non-empty recipient identity, and since to a
\* timestamp not earlier than the session's creation.
C25_SubscriptionFilter ==
    \A c \in CallIds :
        calls[c].sub # "none"
        => /\ calls[c].filter.kinds = {ZapReceiptKind}
           /\ calls[c].filter.authors = {recipientNostrPubkey}
           /\ recipientNostrPubkey # ""
           /\ calls[c].filter.since >= SessionCreatedAt

\* C26: one initiatePayment attempt fetches the metadata endpoint at most once
\* and the callback URL at most once, requests the callback only when the
\* metadata fetch succeeded (2xx, no error discriminator, callback present)
\* and the metadata reports allowsNostr, and issues no request once it has
\* returned: a failed call is not repeated.
C26_RequestOrderNoRetry ==
    [][\A c \in CallIds :
          /\ calls'[c].metaFetches <= 1
          /\ calls'[c].callbackFetches <= 1
          /\ calls'[c].callbackFetches > calls[c].callbackFetches
             => /\ calls[c].pc = "awaitMetadata"
                /\ calls[c].metaFetches = 1
                /\ UsableMetadata(calls'[c].lnurlData)
          /\ calls[c].pc \in {"rejected", "failed", "returned"}
             => /\ calls'[c].metaFetches = calls[c].metaFetches
                /\ calls'[c].callbackFetches = calls[c].callbackFetches]_vars

\* A call failed at its callback request after one metadata fetch and one
\* callback request, and a later call has made its own metadata fetch.
C26_Witness ==
    \E c, d \in CallIds :
        /\ c # d
        /\ calls[c].pc = "failed"
        /\ calls[c].metaFetches = 1
        /\ calls[c].callbackFetches = 1
        /\ calls[d].pc # "idle"
        /\ calls[d].metaFetches = 1

\* C27: a receipt satisfying rules 1 to 8 that is delivered while the receipt
\* timer is armed confirms the session and clears the timer, so that the
\* timeout never fires for it; no session is both confirmed and timed out.
C27_ConfirmationCancelsTimeout ==
    \A c \in CallIds :
        /\ (/\ calls[c].deliveries >= 1
            /\ ~calls[c].lastLate
            /\ SatisfiesRules(calls[c].lastEvent, calls[c].amount, recipientNostrPubkey))
           => /\ calls[c].callbacks = 1
              /\ calls[c].timer = "cleared"
              /\ paymentStatus # TimeoutMessage
        /\ ~(calls[c].callbacks > 0 /\ calls[c].timer = "fired")

\* C28: under every interleaving of initiatePayment, completePayment and
\* resetPayment a stored session implies the lock is held: currentSession is
\* non-null only while paymentInProgress is true.
C28_SessionImpliesLock ==
    currentSession # NoSession => paymentInProgress

\* C29: whenever a session awaits its receipt, the recipient identity the
\* validator compares receipts against (config.recipientNostrPubkey) is the
\* value of the p tag of that session's zap request, also when the relay
\* manager's resolution failed or found no key.
C29_RecipientConsistency ==
    \A c \in CallIds :
        AwaitingReceipt(c)
        => TagValue(currentSession.zapRequest.tags, "p") = recipientNostrPubkey
====
